---- MODULE Spec2Model ----
(***************************************************************************)
(* A model of experiments/01-translation/main.py: the Hangul syllable      *)
(* codec (class Syllable), the word form (class WordForm), the word and    *)
(* its lexical variants (Word, Noun, Topic, Subject, Object, Verb,         *)
(* Adjective) and the conjugations (PresentPolite, PresentTense,           *)
(* PastTense).                                                             *)
(*                                                                         *)
(* A character is its Unicode codepoint, a Python str is a sequence of     *)
(* codepoints.  A raised exception is the error string of the call; the    *)
(* empty string means the call returned.                                   *)
(***************************************************************************)
EXTENDS Integers, Sequences, FiniteSets, TLC

VARIABLES
    syl,      \* a Syllable object: [syllable, jamo_initial, jamo_medial, jamo_final]
    wf,       \* a WordForm object: [string, jamos, syllables]
    heap,     \* the WordForm objects allocated by Word construction, by identity
    word,     \* the source Word: [cls, lemma, root, inflection], fields index heap
    derived,  \* the Word built from the source Word (particle form, conjugated word)
    call      \* the last call: [op, arg, merge, err]

vars ==
    <<syl, wf, heap, word, derived, call>>

(***************************************************************************)
(* Bounds of the model.                                                    *)
(***************************************************************************)
\* codepoints tried beyond the last one that Python's indexing can reach
Margin ==
    12
\* longest string given to WordForm(...)
MaxLen ==
    2
\* most syllables a WordForm may grow to under append
MaxSyllables ==
    3
\* longest lemma given to a Word constructor
MaxLemma ==
    2
\* most WordForm objects the words of one run may allocate
MaxHeap ==
    11

(***************************************************************************)
(* Class constants of Syllable.                                            *)
(***************************************************************************)
INITIAL_JAMOS ==
    <<12593, 12594, 12596, 12599, 12600, 12601, 12609, 12610, 12611, 12613,
      12614, 12615, 12616, 12617, 12618, 12619, 12620, 12621, 12622>>

MEDIAL_JAMOS ==
    <<12623, 12624, 12625, 12626, 12627, 12628, 12629, 12630, 12631, 12632,
      12633, 12634, 12635, 12636, 12637, 12638, 12639, 12640, 12641, 12642,
      12643>>

FINAL_JAMOS ==
    <<32, 12593, 12594, 12595, 12596, 12597, 12598, 12599, 12601, 12602,
      12603, 12604, 12605, 12606, 12607, 12608, 12609, 12610, 12612, 12613,
      12614, 12615, 12616, 12618, 12619, 12620, 12621, 12622>>

JAMO_NONE ==
    32

UNICODE_HANGUL_SYLLABLE_OFFSET ==
    44032

UNICODE_INITIAL_JAMO_FACTOR ==
    588

UNICODE_MEDIAL_JAMO_FACTOR ==
    28

\* the largest argument chr() accepts
MaxCodepoint ==
    1114111

(***************************************************************************)
(* The exceptions the code can raise.                                      *)
(***************************************************************************)
NoError == ""
IndexError == "IndexError: index out of range"
NotFoundError == "ValueError: substring not found"
FinalSetError == "ValueError: Jamo final is set"
SuffixError == "ValueError: Cannot append"
LemmaError == "ValueError: does not end in da"
NameError == "NameError: name 'i' is not defined"

(***************************************************************************)
(* Python sequence primitives.                                             *)
(***************************************************************************)
Range(s) ==
    {s[k] : k \in 1..Len(s)}

\* s[n] is defined for -len(s) <= n < len(s); a negative n counts from the end
InIndexRange(s, n) ==
    n >= -Len(s) /\ n < Len(s)

PyIndex(s, n) ==
    IF n >= 0 THEN s[n + 1] ELSE s[Len(s) + n + 1]

\* s[-1]
Last(s) ==
    s[Len(s)]

\* s[:-1]
Front(s) ==
    SubSeq(s, 1, Len(s) - 1)

\* s.index(c): the 0-based position of the first c, -1 when it raises ValueError
Find(s, c) ==
    IF c \in Range(s)
    THEN (CHOOSE k \in 1..Len(s) : s[k] = c /\ \A j \in 1..(k - 1) : s[j] # c) - 1
    ELSE -1

(***************************************************************************)
(* class Syllable                                                          *)
(***************************************************************************)
\* Syllable.__init__: every field is the empty string, written 0
NewSyllable ==
    [syllable |-> 0, jamo_initial |-> 0, jamo_medial |-> 0, jamo_final |-> 0]

\* Syllable._decompose on an object whose syllable field is set
Decompose(s) ==
    LET num == s.syllable - UNICODE_HANGUL_SYLLABLE_OFFSET
        n_initial == num \div UNICODE_INITIAL_JAMO_FACTOR
        n_medial == (num % UNICODE_INITIAL_JAMO_FACTOR) \div UNICODE_MEDIAL_JAMO_FACTOR
        n_final == (num % UNICODE_INITIAL_JAMO_FACTOR) % UNICODE_MEDIAL_JAMO_FACTOR
    IN  IF ~InIndexRange(INITIAL_JAMOS, n_initial)
        THEN [err |-> IndexError, obj |-> s]
        ELSE LET s1 == [s EXCEPT !.jamo_initial = PyIndex(INITIAL_JAMOS, n_initial)]
             IN  IF ~InIndexRange(MEDIAL_JAMOS, n_medial)
                 THEN [err |-> IndexError, obj |-> s1]
                 ELSE LET s2 == [s1 EXCEPT !.jamo_medial = PyIndex(MEDIAL_JAMOS, n_medial)]
                      IN  IF ~InIndexRange(FINAL_JAMOS, n_final)
                          THEN [err |-> IndexError, obj |-> s2]
                          ELSE [err |-> NoError,
                                obj |-> [s2 EXCEPT !.jamo_final = PyIndex(FINAL_JAMOS, n_final)]]

\* Syllable._compose with the two factors exchanged
ComposeSwappedFactors(s) ==
    LET i == Find(INITIAL_JAMOS, s.jamo_initial)
        m == Find(MEDIAL_JAMOS, s.jamo_medial)
        f == Find(FINAL_JAMOS, s.jamo_final)
        n == i * UNICODE_MEDIAL_JAMO_FACTOR + m * UNICODE_INITIAL_JAMO_FACTOR + f
                 + UNICODE_HANGUL_SYLLABLE_OFFSET
    IN  IF i < 0 \/ m < 0 \/ f < 0
        THEN [err |-> NotFoundError, obj |-> s]
        ELSE IF n > MaxCodepoint
             THEN [err |-> "ValueError: chr() arg not in range", obj |-> s]
             ELSE [err |-> NoError, obj |-> [s EXCEPT !.syllable = n]]

\* Syllable._compose on an object whose three jamo fields are set
Compose(s) ==
    LET i == Find(INITIAL_JAMOS, s.jamo_initial)
        m == Find(MEDIAL_JAMOS, s.jamo_medial)
        f == Find(FINAL_JAMOS, s.jamo_final)
        n == i * UNICODE_INITIAL_JAMO_FACTOR + m * UNICODE_MEDIAL_JAMO_FACTOR + f
                 + UNICODE_HANGUL_SYLLABLE_OFFSET
    IN  IF i < 0 \/ m < 0 \/ f < 0
        THEN [err |-> NotFoundError, obj |-> s]
        ELSE IF n > MaxCodepoint
             THEN [err |-> "ValueError: chr() arg not in range", obj |-> s]
             ELSE [err |-> NoError, obj |-> [s EXCEPT !.syllable = n]]

\* Syllable.from_syllable(c)
from_syllable(c) ==
    Decompose([NewSyllable EXCEPT !.syllable = c])

\* Syllable.from_jamos(jamo_initial, jamo_medial, jamo_final)
from_jamos(ji, jm, jf) ==
    Compose([NewSyllable EXCEPT !.jamo_initial = ji, !.jamo_medial = jm, !.jamo_final = jf])

\* Syllable.append without the test of the existing final
SyllableAppendOverwriting(s, jf) ==
    Compose([s EXCEPT !.jamo_final = jf])

\* Syllable.append(self, jamo_final): obj is self after the call, returned or raised
SyllableAppend(s, jf) ==
    IF s.jamo_final # JAMO_NONE
    THEN [err |-> FinalSetError, obj |-> s]
    ELSE Compose([s EXCEPT !.jamo_final = jf])

\* Syllable.endswith(self, jamo)
SyllableEndswith(s, jamo) ==
    IF s.jamo_final # 32 THEN s.jamo_final = jamo ELSE s.jamo_medial = jamo

(***************************************************************************)
(* class WordForm                                                          *)
(***************************************************************************)
RECURSIVE JamoSequence(_)
\* WordForm._build_jamo_sequence: the value it assigns to self.jamos
JamoSequence(syllables) ==
    IF syllables = <<>>
    THEN <<>>
    ELSE LET s == Head(syllables)
         IN  (IF s.jamo_final # JAMO_NONE
              THEN <<s.jamo_initial, s.jamo_medial, s.jamo_final>>
              ELSE <<s.jamo_initial, s.jamo_medial>>) \o JamoSequence(Tail(syllables))

\* WordForm._syllabes_to_word: the value it assigns to self.string
SyllablesToWord(syllables) ==
    [k \in 1..Len(syllables) |-> syllables[k].syllable]

\* the list built from the decoded characters, unless one of them raised
CollectDecoded(r) ==
    IF \E k \in 1..Len(r) : r[k].err # NoError
    THEN [err |-> IndexError, list |-> <<>>]
    ELSE [err |-> NoError, list |-> [k \in 1..Len(r) |-> r[k].obj]]

\* [Syllable.from_syllable(c) for c in string]: raises at the first bad character
DecodeAll(string) ==
    CollectDecoded([k \in 1..Len(string) |-> from_syllable(string[k])])

\* the object WordForm.__init__ leaves, given the decoded list d
FormFromDecoded(string, d) ==
    IF d.err # NoError
    THEN [err |-> d.err, obj |-> [string |-> string, jamos |-> <<>>, syllables |-> <<>>]]
    ELSE [err |-> NoError,
          obj |-> [string |-> string, jamos |-> JamoSequence(d.list), syllables |-> d.list]]

\* WordForm.__init__(string): obj is the new object when err is NoError
WordForm(string) ==
    FormFromDecoded(string, DecodeAll(string))

\* WordForm.copy(self)
WordFormCopy(w) ==
    WordForm(w.string)

\* the tail of WordForm.append: _build_jamo_sequence, then _syllabes_to_word
Rebuild(w) ==
    [w EXCEPT !.jamos = JamoSequence(w.syllables), !.string = SyllablesToWord(w.syllables)]

\* self.syllables.extend(d) and the tail of WordForm.append, given the decoded
\* list d; when the decoding raised, self is left as it is
ExtendWith(w, d) ==
    IF d.err # NoError
    THEN [err |-> d.err, obj |-> w]
    ELSE [err |-> NoError, obj |-> Rebuild([w EXCEPT !.syllables = w.syllables \o d.list])]

\* the merge branch of WordForm.append after self.syllables[-1].append(suffix[0])
\* gave a: the last syllable is what that call left, also when it raised or
\* when decoding suffix[1:] raises
MergeInto(w, a, suffix) ==
    IF a.err # NoError
    THEN [err |-> a.err, obj |-> [w EXCEPT !.syllables[Len(w.syllables)] = a.obj]]
    ELSE ExtendWith([w EXCEPT !.syllables[Len(w.syllables)] = a.obj], DecodeAll(Tail(suffix)))

\* WordForm.append(self, suffix, merge_syllables): obj is self after the call,
\* whether the call returned or raised
WordFormAppend(w, suffix, merge_syllables) ==
    IF merge_syllables
    THEN IF suffix = <<>>
         THEN [err |-> IndexError, obj |-> w]
         ELSE IF suffix[1] \notin Range(INITIAL_JAMOS)
         THEN [err |-> SuffixError, obj |-> w]
         ELSE IF w.syllables = <<>>
         THEN [err |-> IndexError, obj |-> w]
         ELSE MergeInto(w, SyllableAppend(Last(w.syllables), suffix[1]), suffix)
    ELSE ExtendWith(w, DecodeAll(suffix))

\* str.endswith(tuple of one-character strings)
EndsWithAny(jamos, units) ==
    jamos # <<>> /\ jamos[Len(jamos)] \in units

(***************************************************************************)
(* Module-level tuples of main.py and the suffixes the rules attach.       *)
(***************************************************************************)
\* hangul_vowels = tuple('...'), one string per vowel
hangul_vowels ==
    {12623, 12624, 12625, 12626, 12627, 12628, 12629, 12630, 12631, 12632,
     12633, 12634, 12635, 12636, 12637, 12638, 12639, 12640, 12641, 12642,
     12643}

\* hangul_consonants with its first consonant, g, left out
hangul_consonants_without_g ==
    {12594, 12595, 12596, 12597, 12598, 12599, 12601, 12602,
     12603, 12604, 12605, 12606, 12607, 12608, 12609, 12610, 12612, 12613,
     12614, 12615, 12616, 12618, 12619, 12620, 12621, 12622}

\* hangul_consonants = tuple('...'), one string per consonant
hangul_consonants ==
    {12593, 12594, 12595, 12596, 12597, 12598, 12599, 12601, 12602,
     12603, 12604, 12605, 12606, 12607, 12608, 12609, 12610, 12612, 12613,
     12614, 12615, 12616, 12618, 12619, 12620, 12621, 12622}

Da == 45796      \* the syllable da, the dictionary ending
Neun == 45716    \* the topic particle after a vowel
Eun == 51008     \* the topic particle after a consonant
Ga == 44032      \* the subject particle after a vowel
Yi == 51060      \* the subject particle after a consonant
Reul == 47484    \* the object particle after a vowel
Eul == 51012     \* the object particle after a consonant
Ni == 45768      \* the syllable ni
Seup == 49845    \* the syllable seup
JamoB == 12610   \* the consonant b (bieup)
JamoN == 12596   \* the consonant n (nieun)

(***************************************************************************)
(* class Word and its subclasses.  A Word holds three references into the  *)
(* heap of WordForm objects; an object's identity is its position there.   *)
(***************************************************************************)
NoWord ==
    [cls |-> "", lemma |-> 0, root |-> 0, inflection |-> 0]

\* Word.__init__ given f, the outcome of WordForm(lemma): three objects
WordInitFrom(h, cls, f) ==
    IF f.err # NoError
    THEN [err |-> f.err, heap |-> h, word |-> NoWord]
    ELSE [err |-> NoError,
          heap |-> h \o <<f.obj, f.obj, f.obj>>,
          word |-> [cls |-> cls, lemma |-> Len(h) + 1, root |-> Len(h) + 2,
                    inflection |-> Len(h) + 3]]

\* Word.__init__(lemma): three WordForm objects are built from the string
WordInit(h, cls, lemma) ==
    WordInitFrom(h, cls, WordForm(lemma))

\* Word.copy given r, the outcome of Word(self.lemma.string), and the two copies
CopyInto(r, root, inflection) ==
    IF r.err # NoError
    THEN r
    ELSE IF root.err # NoError
    THEN [err |-> root.err, heap |-> r.heap, word |-> NoWord]
    ELSE IF inflection.err # NoError
    THEN [err |-> inflection.err, heap |-> r.heap \o <<root.obj>>, word |-> NoWord]
    ELSE [err |-> NoError,
          heap |-> r.heap \o <<root.obj, inflection.obj>>,
          word |-> [r.word EXCEPT !.root = Len(r.heap) + 1,
                                  !.inflection = Len(r.heap) + 2]]

\* Word.copy that hands its own root and inflection objects to the new Word
WordCopyShared(h, w) ==
    [WordInit(h, "Word", h[w.lemma].string) EXCEPT !.word.root = w.root,
                                                   !.word.inflection = w.inflection]

\* Word.copy(self)
WordCopy(h, w) ==
    CopyInto(WordInit(h, "Word", h[w.lemma].string),
             WordFormCopy(h[w.root]), WordFormCopy(h[w.inflection]))

\* Noun.__init__(lemma)
NounInit(h, lemma) ==
    WordInit(h, "Noun", lemma)

\* the new noun r after self.inflection.append(particle) gave a; append works
\* in place on the object the inflection field refers to
Appended(r, a) ==
    [err |-> a.err,
     heap |-> [r.heap EXCEPT ![r.word.inflection] = a.obj],
     word |-> IF a.err = NoError THEN r.word ELSE NoWord]

\* the body of Topic.__init__, Subject.__init__ and Object.__init__ after
\* Noun.__init__ gave r: the test of self.root.jamos and the append
AttachParticle(r, afterVowel, afterConsonant) ==
    IF r.err # NoError
    THEN r
    ELSE Appended(r, WordFormAppend(r.heap[r.word.inflection],
                                    IF EndsWithAny(r.heap[r.word.root].jamos, hangul_vowels)
                                    THEN afterVowel ELSE afterConsonant,
                                    FALSE))

\* Topic.__init__ with the two particles exchanged
TopicInitSwapped(h, w) ==
    AttachParticle(WordInit(h, "Topic", h[w.lemma].string), <<Eun>>, <<Neun>>)

\* Topic.__init__(word)
TopicInit(h, w) ==
    AttachParticle(WordInit(h, "Topic", h[w.lemma].string), <<Neun>>, <<Eun>>)

\* Subject.__init__(word)
SubjectInit(h, w) ==
    AttachParticle(WordInit(h, "Subject", h[w.lemma].string), <<Ga>>, <<Yi>>)

\* Object.__init__(word)
ObjectInit(h, w) ==
    AttachParticle(WordInit(h, "Object", h[w.lemma].string), <<Reul>>, <<Eul>>)

\* lemma.string.endswith(da)
EndsWithDa(string) ==
    string # <<>> /\ string[Len(string)] = Da

\* self.root = f, the outcome of WordForm(self.lemma.string[:-1])
WithRoot(r, f) ==
    IF f.err # NoError
    THEN [err |-> f.err, heap |-> r.heap, word |-> NoWord]
    ELSE [err |-> NoError,
          heap |-> r.heap \o <<f.obj>>,
          word |-> [r.word EXCEPT !.root = Len(r.heap) + 1]]

\* the body of Adjective.__init__ and Verb.__init__ after Word.__init__ gave r
StemInit(r) ==
    IF r.err # NoError
    THEN r
    ELSE IF EndsWithDa(r.heap[r.word.lemma].string)
    THEN WithRoot(r, WordForm(Front(r.heap[r.word.lemma].string)))
    ELSE [err |-> LemmaError, heap |-> r.heap, word |-> NoWord]

\* Adjective.__init__(lemma)
AdjectiveInit(h, lemma) ==
    StemInit(WordInit(h, "Adjective", lemma))

\* Verb.__init__ that accepts every lemma and keeps the whole lemma as the root
VerbInitNoStem(h, lemma) ==
    WordInit(h, "Verb", lemma)

\* Verb.__init__(lemma)
VerbInit(h, lemma) ==
    StemInit(WordInit(h, "Verb", lemma))

(***************************************************************************)
(* The conjugations.  word is the conjugation object's self.word; when     *)
(* __init__ raises there is no conjugation object and word is NoWord.      *)
(***************************************************************************)
\* self.word.inflection is the new object a.obj, the copy of the root after append
PoliteResult(c, a) ==
    [err |-> a.err,
     heap |-> c.heap \o <<a.obj>>,
     word |-> IF a.err = NoError
              THEN [c.word EXCEPT !.cls = "PresentPolite", !.inflection = Len(c.heap) + 1]
              ELSE NoWord]

\* PresentPolite.__init__ after self.word.root.copy() gave f
PoliteAppend(c, f, merged) ==
    IF f.err # NoError
    THEN [err |-> f.err, heap |-> c.heap, word |-> NoWord]
    ELSE PoliteResult(c, IF EndsWithAny(c.heap[c.word.root].jamos, hangul_vowels)
                         THEN WordFormAppend(f.obj, merged, TRUE)
                         ELSE WordFormAppend(f.obj, <<Seup, Ni, Da>>, FALSE))

\* PresentPolite.__init__ after word.copy() gave c
PoliteFrom(c, merged) ==
    IF c.err # NoError
    THEN c
    ELSE PoliteAppend(c, WordFormCopy(c.heap[c.word.root]), merged)

\* PresentPolite.__init__ that merges the consonant n where b belongs
PresentPoliteInitWrongJamo(h, w) ==
    PoliteFrom(WordCopy(h, w), <<JamoN, Ni, Da>>)

\* PresentPolite.__init__(word)
PresentPoliteInit(h, w) ==
    PoliteFrom(WordCopy(h, w), <<JamoB, Ni, Da>>)

\* self.word = word.copy(), tagged as owned by a PresentTense
TenseFrom(c) ==
    IF c.err # NoError THEN c ELSE [c EXCEPT !.word.cls = "PresentTense"]

\* PresentTense.__init__(word)
PresentTenseInit(h, w) ==
    TenseFrom(WordCopy(h, w))

\* the end of informalLow: self.word.inflection is the object id, left as the
\* append left it, whether it returned or raised
LowResult(h, w, id, a) ==
    [err |-> a.err,
     heap |-> IF id > Len(h) THEN h \o <<a.obj>> ELSE [h EXCEPT ![id] = a.obj],
     word |-> [w EXCEPT !.inflection = id]]

\* informalLow after self.word.root.copy() gave f
LowAppend(h, w, f) ==
    IF f.err # NoError
    THEN [err |-> f.err, heap |-> h, word |-> w]
    ELSE LowResult(h, w, Len(h) + 1,
                   IF EndsWithAny(h[w.root].jamos, hangul_consonants)
                   THEN WordFormAppend(f.obj, <<Neun, Da>>, FALSE)
                   ELSE WordFormAppend(f.obj, <<JamoN, Da>>, TRUE))

\* PresentTense.informalLow that appends to the root itself, not to a copy of it
InformalLowOnRoot(h, w) ==
    LowResult(h, w, w.root,
              IF EndsWithAny(h[w.root].jamos, hangul_consonants)
              THEN WordFormAppend(h[w.root], <<Neun, Da>>, FALSE)
              ELSE WordFormAppend(h[w.root], <<JamoN, Da>>, TRUE))

\* PresentTense.informalLow(self): word is self.word after the call, whether
\* the call returned or raised
InformalLow(h, w) ==
    LowAppend(h, w, WordFormCopy(h[w.root]))

\* self.word = word.copy(), tagged as owned by a PastTense
PastFrom(c) ==
    IF c.err # NoError THEN c ELSE [c EXCEPT !.word.cls = "PastTense"]

\* PastTense.__init__(word)
PastTenseInit(h, w) ==
    PastFrom(WordCopy(h, w))

\* self.word.inflection.jamos[-i] = ...: the name i is bound nowhere, so
\* evaluating the subscript raises; nothing has been assigned
AssignContracted(h, w) ==
    [err |-> NameError, heap |-> h, word |-> w]

\* a branch of _build_base_inflection that is pass, or an if that is skipped
Pass(h, w) ==
    [err |-> NoError, heap |-> h, word |-> w]

\* PastTense._build_base_inflection(self), with the root's string and jamos:
\* ha, then the vowels a, o, ya, yo (U+314F, U+3157, U+3151, U+315B), then
\* u, i, eo, yeo (U+315C, U+3163, U+3153, U+3155)
BaseInflection(h, w, string, jamos) ==
    IF string # <<>> /\ Last(string) = 54616
    THEN Pass(h, w)
    ELSE IF EndsWithAny(jamos, {12623, 12631, 12625, 12635})
    THEN IF EndsWithAny(jamos, {12631}) THEN AssignContracted(h, w) ELSE Pass(h, w)
    ELSE IF EndsWithAny(jamos, {12636}) THEN AssignContracted(h, w)
    ELSE IF EndsWithAny(jamos, {12643}) THEN AssignContracted(h, w)
    ELSE IF EndsWithAny(jamos, {12629}) THEN AssignContracted(h, w)
    ELSE Pass(h, w)

\* PastTense._build_base_inflection(self)
BuildBaseInflection(h, w) ==
    BaseInflection(h, w, h[w.root].string, h[w.root].jamos)

(***************************************************************************)
(* The inputs tried.                                                       *)
(***************************************************************************)
SeqsUpTo(S, n) ==
    UNION {[1..k -> S] : k \in 0..n}

\* the number of composed syllables, 19 * 21 * 28
BlockSize ==
    Len(INITIAL_JAMOS) * Len(MEDIAL_JAMOS) * Len(FINAL_JAMOS)

BlockLo ==
    UNICODE_HANGUL_SYLLABLE_OFFSET

BlockHi ==
    UNICODE_HANGUL_SYLLABLE_OFFSET + BlockSize - 1

\* the Hangul compatibility jamo, U+3131..U+3163
CompatJamos ==
    12593..12643

\* characters given to from_syllable: the syllable block, as many codepoints
\* below it, a margin on both sides, the raw jamo, the space and the letter A
CodecChars ==
    ((BlockLo - BlockSize - Margin)..(BlockHi + Margin)) \cup CompatJamos \cup {32, 65}

\* arguments given to from_jamos: each catalog and characters outside it
InitialArgs ==
    Range(INITIAL_JAMOS) \cup {12595, 32}

MedialArgs ==
    Range(MEDIAL_JAMOS) \cup {12593}

FinalArgs ==
    Range(FINAL_JAMOS) \cup {12600, 12623}

\* arguments given to Syllable.append: b, n, the initial-only ss-d (U+3138),
\* the final-only cluster gs (U+3133), a vowel and the no-final space
AppendArgs ==
    {JamoB, JamoN, 12600, 12595, 12623, 32}

\* characters of the strings a WordForm is built from: ga, meok and U+ABFF,
\* a codepoint below the block that decodes (to a syllable with a final)
FormChars ==
    {44032, 47673, 44031}

\* suffixes of a plain append: da, meok and the raw jamo b, which does not decode
PlainSuffixes ==
    SeqsUpTo({Da, 47673, JamoB}, MaxLen)

\* first characters of a merging append: n and b (in both catalogs), ss-d
\* U+3138 (initial only), the cluster gs U+3133 (final only), the vowel a,
\* the syllable ga and the space
MergeHeads ==
    {JamoN, JamoB, 12600, 12595, 12623, 44032, 32}

\* suffixes of a merging append: a first character, then nothing, da or b
MergeSuffixes ==
    {<<>>} \cup {<<c>> \o rest : c \in MergeHeads, rest \in SeqsUpTo({Da, JamoB}, 1)}

\* characters of lemmas: ga meok da ha o jeo chaek sa ram ui ja, u i eo ya
\* yeo, a codepoint below the block without a final and one with, and the
\* raw jamo b
LemmaChars ==
    {44032, 47673, 45796, 54616, 50724, 51200, 52293, 49324, 46988, 51032, 51088,
     50864, 51060, 50612, 50556, 50668, 44004, 44031, JamoB}

Lemmas ==
    SeqsUpTo(LemmaChars, MaxLemma)

(***************************************************************************)
(* State.                                                                  *)
(***************************************************************************)
Idle ==
    [op |-> "idle", arg |-> <<>>, merge |-> FALSE, err |-> NoError]

Call(op, arg, merge, err) ==
    [op |-> op, arg |-> arg, merge |-> merge, err |-> err]

\* no object has been built
Init ==
    /\ syl = NewSyllable
    /\ wf = WordForm(<<>>).obj
    /\ heap = <<>>
    /\ word = NoWord
    /\ derived = NoWord
    /\ call = Idle

(***************************************************************************)
(* The codec: one Syllable object, built by either constructor and then    *)
(* given final jamos.                                                      *)
(***************************************************************************)
\* a constructor returned r.obj, or raised and there is no object
Constructed(r, op, arg) ==
    /\ syl' = IF r.err = NoError THEN r.obj ELSE syl
    /\ call' = Call(op, arg, FALSE, r.err)

\* a method left the object as r.obj
Mutated(r, op, arg) ==
    /\ syl' = r.obj
    /\ call' = Call(op, arg, FALSE, r.err)

CallFromSyllable ==
    /\ call.op = "idle"
    /\ \E c \in CodecChars :
          Constructed(from_syllable(c), "from_syllable", <<c>>)
    /\ UNCHANGED <<wf, heap, word, derived>>

CallFromJamos ==
    /\ call.op = "idle"
    /\ \E ji \in InitialArgs, jm \in MedialArgs, jf \in FinalArgs :
          Constructed(from_jamos(ji, jm, jf), "from_jamos", <<ji, jm, jf>>)
    /\ UNCHANGED <<wf, heap, word, derived>>

CallSyllableAppend ==
    /\ call.op \in {"from_syllable", "from_jamos", "Syllable.append"}
    /\ syl # NewSyllable
    /\ \E jf \in AppendArgs :
          Mutated(SyllableAppend(syl, jf), "Syllable.append", <<jf>>)
    /\ UNCHANGED <<wf, heap, word, derived>>

NextCodec ==
    \/ CallFromSyllable
    \/ CallFromJamos
    \/ CallSyllableAppend

SpecCodec ==
    Init /\ [][NextCodec]_vars

(***************************************************************************)
(* The word form: one WordForm object, built from a string and then        *)
(* appended to.                                                            *)
(***************************************************************************)
\* WordForm(string) returned the object f.obj
Built(f, string) ==
    /\ f.err = NoError
    /\ wf = f.obj
    /\ call = Call("WordForm", string, FALSE, NoError)

InitForm ==
    /\ \E string \in SeqsUpTo(FormChars, MaxLen) :
          Built(WordForm(string), string)
    /\ syl = NewSyllable
    /\ heap = <<>>
    /\ word = NoWord
    /\ derived = NoWord

\* append left the object as r.obj
AppendedTo(r, suffix, merge) ==
    /\ wf' = r.obj
    /\ call' = Call("WordForm.append", suffix, merge, r.err)

CallAppend ==
    /\ \E suffix \in PlainSuffixes :
          /\ Len(wf.syllables) + Len(suffix) <= MaxSyllables
          /\ AppendedTo(WordFormAppend(wf, suffix, FALSE), suffix, FALSE)
    /\ UNCHANGED <<syl, heap, word, derived>>

CallAppendMerge ==
    /\ \E suffix \in MergeSuffixes :
          /\ Len(wf.syllables) + Len(suffix) <= MaxSyllables + 1
          /\ AppendedTo(WordFormAppend(wf, suffix, TRUE), suffix, TRUE)
    /\ UNCHANGED <<syl, heap, word, derived>>

NextForm ==
    \/ CallAppend
    \/ CallAppendMerge

SpecForm ==
    InitForm /\ [][NextForm]_vars

(***************************************************************************)
(* The words: a source Word built from a lemma, and one Word derived from  *)
(* it by a particle constructor or a conjugation.                          *)
(***************************************************************************)
\* the constructor of the source word gave r
SourceBuilt(r, op, lemma) ==
    /\ heap' = r.heap
    /\ word' = r.word
    /\ call' = Call(op, lemma, FALSE, r.err)

\* the constructor or method of the derived word gave r
DerivedBuilt(r, op) ==
    /\ heap' = r.heap
    /\ derived' = r.word
    /\ call' = Call(op, <<>>, FALSE, r.err)

NewNoun ==
    /\ call.op = "idle"
    /\ \E lemma \in Lemmas :
          SourceBuilt(NounInit(heap, lemma), "Noun", lemma)
    /\ UNCHANGED <<syl, wf, derived>>

NewAdjective ==
    /\ call.op = "idle"
    /\ \E lemma \in Lemmas :
          SourceBuilt(AdjectiveInit(heap, lemma), "Adjective", lemma)
    /\ UNCHANGED <<syl, wf, derived>>

NewVerb ==
    /\ call.op = "idle"
    /\ \E lemma \in Lemmas :
          SourceBuilt(VerbInit(heap, lemma), "Verb", lemma)
    /\ UNCHANGED <<syl, wf, derived>>

MakeTopic ==
    /\ word.cls = "Noun"
    /\ derived = NoWord
    /\ DerivedBuilt(TopicInit(heap, word), "Topic")
    /\ UNCHANGED <<syl, wf, word>>

MakeSubject ==
    /\ word.cls = "Noun"
    /\ derived = NoWord
    /\ DerivedBuilt(SubjectInit(heap, word), "Subject")
    /\ UNCHANGED <<syl, wf, word>>

MakeObject ==
    /\ word.cls = "Noun"
    /\ derived = NoWord
    /\ DerivedBuilt(ObjectInit(heap, word), "Object")
    /\ UNCHANGED <<syl, wf, word>>

MakePresentPolite ==
    /\ word.cls \in {"Verb", "Adjective"}
    /\ derived = NoWord
    /\ DerivedBuilt(PresentPoliteInit(heap, word), "PresentPolite")
    /\ UNCHANGED <<syl, wf, word>>

MakePresentTense ==
    /\ word.cls \in {"Verb", "Adjective"}
    /\ derived = NoWord
    /\ DerivedBuilt(PresentTenseInit(heap, word), "PresentTense")
    /\ UNCHANGED <<syl, wf, word>>

CallInformalLow ==
    /\ derived.cls = "PresentTense"
    /\ Len(heap) < MaxHeap
    /\ DerivedBuilt(InformalLow(heap, derived), "informalLow")
    /\ UNCHANGED <<syl, wf, word>>

MakePastTense ==
    /\ word.cls \in {"Verb", "Adjective"}
    /\ derived = NoWord
    /\ DerivedBuilt(PastTenseInit(heap, word), "PastTense")
    /\ UNCHANGED <<syl, wf, word>>

CallBuildBaseInflection ==
    /\ derived.cls = "PastTense"
    /\ DerivedBuilt(BuildBaseInflection(heap, derived), "_build_base_inflection")
    /\ UNCHANGED <<syl, wf, word>>

NextWord ==
    \/ NewNoun
    \/ NewAdjective
    \/ NewVerb
    \/ MakeTopic
    \/ MakeSubject
    \/ MakeObject
    \/ MakePresentPolite
    \/ MakePresentTense
    \/ CallInformalLow
    \/ MakePastTense
    \/ CallBuildBaseInflection

SpecWord ==
    Init /\ [][NextWord]_vars

(***************************************************************************)
(* Copies: a source Word, one Word derived from it by Word.copy, a         *)
(* particle constructor or a conjugation, and appends made in place to the *)
(* derived Word's root and inflection.                                     *)
(***************************************************************************)
CopyLemmas ==
    {<<44032>>, <<47673>>, <<Ga, Da>>, <<47673, Da>>, <<Da>>, <<50724, Da>>}

\* (suffix, merge) arguments of the later appends: a syllable, a final jamo,
\* and a final jamo followed by a character that does not decode
CopySuffixes ==
    {[suffix |-> <<Da>>, merge |-> FALSE],
     [suffix |-> <<JamoB>>, merge |-> TRUE],
     [suffix |-> <<JamoB, JamoB>>, merge |-> TRUE]}

SourceNoun ==
    /\ call.op = "idle"
    /\ \E lemma \in CopyLemmas :
          SourceBuilt(NounInit(heap, lemma), "Noun", lemma)
    /\ UNCHANGED <<syl, wf, derived>>

SourceVerb ==
    /\ call.op = "idle"
    /\ \E lemma \in CopyLemmas :
          SourceBuilt(VerbInit(heap, lemma), "Verb", lemma)
    /\ UNCHANGED <<syl, wf, derived>>

MakeCopy ==
    /\ word.cls # ""
    /\ derived = NoWord
    /\ DerivedBuilt(WordCopy(heap, word), "copy")
    /\ UNCHANGED <<syl, wf, word>>

\* informalLow called once, on the PresentTense just constructed
FirstInformalLow ==
    /\ derived.cls = "PresentTense"
    /\ call.op = "PresentTense"
    /\ DerivedBuilt(InformalLow(heap, derived), "informalLow")
    /\ UNCHANGED <<syl, wf, word>>

\* WordForm.append gave a on the object id: the object is left as the call
\* left it, whether it returned or raised
AppendedInPlace(id, a, s) ==
    /\ heap' = [heap EXCEPT ![id] = a.obj]
    /\ call' = Call("append", s.suffix, s.merge, a.err)

AppendToRoot ==
    /\ derived.cls # ""
    /\ Len(heap[derived.root].syllables) < MaxSyllables
    /\ \E s \in CopySuffixes :
          AppendedInPlace(derived.root,
                          WordFormAppend(heap[derived.root], s.suffix, s.merge), s)
    /\ UNCHANGED <<syl, wf, word, derived>>

AppendToInflection ==
    /\ derived.cls # ""
    /\ Len(heap[derived.inflection].syllables) < MaxSyllables
    /\ \E s \in CopySuffixes :
          AppendedInPlace(derived.inflection,
                          WordFormAppend(heap[derived.inflection], s.suffix, s.merge), s)
    /\ UNCHANGED <<syl, wf, word, derived>>

NextCopy ==
    \/ SourceNoun
    \/ SourceVerb
    \/ MakeCopy
    \/ MakeTopic
    \/ MakeSubject
    \/ MakeObject
    \/ MakePresentPolite
    \/ MakePresentTense
    \/ FirstInformalLow
    \/ MakePastTense
    \/ CallBuildBaseInflection
    \/ AppendToRoot
    \/ AppendToInflection

SpecCopy ==
    Init /\ [][NextCopy]_vars

(***************************************************************************)
(* Properties of the codec, checked under SpecCodec.                       *)
(***************************************************************************)
InBlock(c) ==
    c \in BlockLo..BlockHi

\* C1: the two constructors are inverses.  Decoding a character of the
\* syllable block succeeds and encoding the three jamos it yields gives the
\* character back; encoding a triple taken from the three catalogs succeeds
\* and decoding the character it yields gives the triple back.
C1_RoundTrip ==
    /\ (call.op = "from_syllable" /\ InBlock(call.arg[1])) =>
          /\ call.err = NoError
          /\ LET e == from_jamos(syl.jamo_initial, syl.jamo_medial, syl.jamo_final)
             IN  e.err = NoError /\ e.obj.syllable = call.arg[1]
    /\ (/\ call.op = "from_jamos"
        /\ call.arg[1] \in Range(INITIAL_JAMOS)
        /\ call.arg[2] \in Range(MEDIAL_JAMOS)
        /\ call.arg[3] \in Range(FINAL_JAMOS)) =>
          /\ call.err = NoError
          /\ InBlock(syl.syllable)
          /\ LET d == from_syllable(syl.syllable)
             IN  /\ d.err = NoError
                 /\ <<d.obj.jamo_initial, d.obj.jamo_medial, d.obj.jamo_final>> = call.arg

\* meok decodes to (m, eo, g), the triple (h, i, h) encodes to the last syllable
C1_Witness ==
    \/ /\ call.op = "from_syllable"
       /\ call.arg = <<47673>>
       /\ syl = [syllable |-> 47673, jamo_initial |-> 12609, jamo_medial |-> 12627,
                 jamo_final |-> 12593]
    \/ /\ call.op = "from_jamos"
       /\ call.arg = <<12622, 12643, 12622>>
       /\ syl.syllable = 55203

\* C2: decoding a character outside the syllable block raises and yields no
\* Syllable, below the block as well as above it.
C2_DecodeRejectsOutside ==
    (call.op = "from_syllable" /\ ~InBlock(call.arg[1])) =>
        (call.err # NoError /\ syl = NewSyllable)

(***************************************************************************)
(* Properties of the word form, checked under SpecForm.                    *)
(***************************************************************************)
\* the consonants of the final catalog, indices 1..27
FinalConsonants ==
    {FINAL_JAMOS[k] : k \in 2..Len(FINAL_JAMOS)}

\* C3: in every state of a WordForm, after calls that returned and calls that
\* raised, jamos is the concatenation over the syllables of initial, medial
\* and the final when there is one, and string is the concatenation of the
\* syllables' characters.
C3_DerivedViews ==
    /\ wf.jamos = JamoSequence(wf.syllables)
    /\ wf.string = SyllablesToWord(wf.syllables)

\* C4: an append that raises leaves the WordForm as it was: the syllables,
\* their jamos and characters, string and jamos.
C4_Atomic ==
    [][(call'.op = "WordForm.append" /\ call'.err # NoError) => wf' = wf]_vars

\* C5: a merging append raises the invalid-suffix error exactly when the first
\* character of the suffix is not a consonant of the final catalog.
C5_MergeHead ==
    (call.op = "WordForm.append" /\ call.merge /\ call.arg # <<>>) =>
        (call.err = SuffixError <=> call.arg[1] \notin FinalConsonants)

\* C6: a syllable takes at most one final.  A merging append that reaches the
\* last syllable (the suffix is not empty and not refused as invalid) raises
\* the final-already-set error when that syllable has a final, and changes
\* nothing; and no call ever changes or removes a final that is set.
C6_OneFinal ==
    [][/\ (/\ call'.op = "WordForm.append"
           /\ call'.merge
           /\ call'.arg # <<>>
           /\ call'.err # SuffixError
           /\ wf.syllables # <<>>
           /\ Last(wf.syllables).jamo_final # JAMO_NONE) =>
              (call'.err = FinalSetError /\ wf' = wf)
       /\ \A k \in 1..Len(wf.syllables) :
              wf.syllables[k].jamo_final # JAMO_NONE =>
                  /\ k <= Len(wf'.syllables)
                  /\ wf'.syllables[k].jamo_final = wf.syllables[k].jamo_final
      ]_vars

\* meok has the final g; appending b-ni-da with merge was refused
C6_Witness ==
    /\ call.op = "WordForm.append"
    /\ call.merge
    /\ call.arg = <<JamoB, Da>>
    /\ call.err = FinalSetError
    /\ wf.string = <<47673>>
    /\ Last(wf.syllables).jamo_final = 12593

(***************************************************************************)
(* Properties of the words, checked under SpecWord.                        *)
(***************************************************************************)
\* the last syllable of a WordForm has no final consonant
OpenEnded(form) ==
    form.syllables # <<>> /\ Last(form.syllables).jamo_final = JAMO_NONE

\* the last syllable of a WordForm has a final consonant
ClosedEnded(form) ==
    form.syllables # <<>> /\ Last(form.syllables).jamo_final # JAMO_NONE

\* the syllables of a form with the given jamo as the final of the last one
WithFinal(syllables, jf) ==
    LET last == Last(syllables)
    IN  Front(syllables) \o <<from_jamos(last.jamo_initial, last.jamo_medial, jf).obj>>

\* a well-formed WordForm made of the given syllables
FormOf(form, syllables) ==
    /\ form.syllables = syllables
    /\ form.string = [k \in 1..Len(syllables) |-> syllables[k].syllable]
    /\ form.jamos = JamoSequence(syllables)

\* the syllables a string of composed characters decodes to
Decoded(string) ==
    [k \in 1..Len(string) |-> from_syllable(string[k]).obj]

\* the particle the table of the specification gives for a class and a root
ParticleFor(cls, root) ==
    IF OpenEnded(root)
    THEN (CASE cls = "Topic" -> 45716 [] cls = "Subject" -> 44032 [] cls = "Object" -> 47484)
    ELSE (CASE cls = "Topic" -> 51008 [] cls = "Subject" -> 51060 [] cls = "Object" -> 51012)

\* C7: the inflection of a Topic, Subject or Object is the noun's root followed
\* by one particle syllable, chosen by whether the root's last syllable has a
\* final consonant; jeo gives jeo-ga, chaek chaek-i, saram saram-eun, uija
\* uija-neun.
C7_Particles ==
    (derived.cls \in {"Topic", "Subject", "Object"} /\ heap[word.root].syllables # <<>>) =>
        LET root == heap[word.root]
            inflection == heap[derived.inflection]
            particle == ParticleFor(derived.cls, root)
        IN  /\ FormOf(inflection, root.syllables \o Decoded(<<particle>>))
            /\ inflection.string = root.string \o <<particle>>
            /\ (derived.cls = "Subject" /\ root.string = <<51200>>) =>
                   inflection.string = <<51200, 44032>>
            /\ (derived.cls = "Subject" /\ root.string = <<52293>>) =>
                   inflection.string = <<52293, 51060>>
            /\ (derived.cls = "Topic" /\ root.string = <<49324, 46988>>) =>
                   inflection.string = <<49324, 46988, 51008>>
            /\ (derived.cls = "Topic" /\ root.string = <<51032, 51088>>) =>
                   inflection.string = <<51032, 51088, 45716>>

\* Topic of saram is saram-eun
C7_Witness ==
    /\ derived.cls = "Topic"
    /\ heap[word.root].string = <<49324, 46988>>
    /\ heap[derived.inflection].string = <<49324, 46988, 51008>>

\* every character of the string is one that from_syllable decodes
Decodable(string) ==
    \A k \in 1..Len(string) : string[k] \in (BlockLo - BlockSize)..BlockHi

\* what construction of a predicate from a lemma ending in da leaves
StemOf(lemma) ==
    /\ call.err = NoError
    /\ word.cls = call.op
    /\ FormOf(heap[word.lemma], Decoded(lemma))
    /\ FormOf(heap[word.inflection], Decoded(lemma))
    /\ FormOf(heap[word.root], Front(Decoded(lemma)))

\* C8 as stated: constructing a Verb or Adjective succeeds exactly when the
\* lemma ends in da, then the root is the lemma without its last syllable and
\* the lemma is kept; any other lemma fails with the malformed-lemma error
\* and yields no Word.
C8_StemExtraction ==
    call.op \in {"Verb", "Adjective"} =>
        IF call.arg # <<>> /\ Last(call.arg) = 45796
        THEN StemOf(call.arg)
        ELSE call.err = LemmaError /\ word = NoWord

\* C8 amended: the same for a lemma whose every character decodes; a lemma
\* with a character that does not decode fails with the index error of the
\* decoding, whatever its ending, and yields no Word.
C8_StemExtractionDecodable ==
    call.op \in {"Verb", "Adjective"} =>
        IF ~Decodable(call.arg)
        THEN call.err = IndexError /\ word = NoWord
        ELSE IF call.arg # <<>> /\ Last(call.arg) = 45796
        THEN StemOf(call.arg)
        ELSE call.err = LemmaError /\ word = NoWord

\* Verb meok-da has the root meok
C8_Witness ==
    /\ call.op = "Verb"
    /\ call.arg = <<47673, 45796>>
    /\ heap[word.root].string = <<47673>>
    /\ heap[word.lemma].string = <<47673, 45796>>

\* C9: PresentPolite of a root whose last syllable has no final is the root
\* with b as the final of that syllable, followed by ni-da; of a root whose
\* last syllable has a final it is the root followed by seup-ni-da.
C9_PresentPolite ==
    (call.op = "PresentPolite" /\ heap[word.root].syllables # <<>>) =>
        LET root == heap[word.root]
            inflection == heap[derived.inflection]
        IN  /\ call.err = NoError
            /\ derived.cls = "PresentPolite"
            /\ OpenEnded(root) =>
                   FormOf(inflection, WithFinal(root.syllables, 12610) \o Decoded(<<45768, 45796>>))
            /\ ClosedEnded(root) =>
                   FormOf(inflection, root.syllables \o Decoded(<<49845, 45768, 45796>>))
            /\ root.string = <<44032>> => inflection.string = <<44049, 45768, 45796>>
            /\ root.string = <<47673>> => inflection.string = <<47673, 49845, 45768, 45796>>

\* PresentPolite of ga-da is gap-ni-da
C9_Witness ==
    /\ call.op = "PresentPolite"
    /\ heap[word.lemma].string = <<44032, 45796>>
    /\ heap[derived.inflection].string = <<44049, 45768, 45796>>

\* what informalLow leaves for a root that is not empty
InformalLowOf(root) ==
    LET inflection == heap[derived.inflection]
    IN  /\ call.err = NoError
        /\ IF ClosedEnded(root)
           THEN FormOf(inflection, root.syllables \o Decoded(<<45716, 45796>>))
           ELSE /\ root.syllables # <<>>
                /\ FormOf(inflection, WithFinal(root.syllables, 12596) \o Decoded(<<45796>>))
        /\ FormOf(heap[derived.root], root.syllables)

\* C10 as stated: informalLow of a root whose last syllable has a final is the
\* root followed by neun-da; of every other root it is the root with n as the
\* final of its last syllable, followed by da.
C10_InformalLow ==
    call.op = "informalLow" => InformalLowOf(heap[word.root])

\* C10 amended: the same for every predicate whose root is not empty; for the
\* empty root of the lemma da the call raises the index error of the missing
\* last syllable and leaves an empty inflection.
C10_InformalLowNonEmpty ==
    call.op = "informalLow" =>
        IF heap[word.root].syllables # <<>>
        THEN InformalLowOf(heap[word.root])
        ELSE call.err = IndexError /\ FormOf(heap[derived.inflection], <<>>)

\* informalLow of meok-da is meok-neun-da, of ga-da it is gan-da
C10_Witness ==
    /\ call.op = "informalLow"
    /\ \/ /\ heap[word.lemma].string = <<47673, 45796>>
          /\ heap[derived.inflection].string = <<47673, 45716, 45796>>
       \/ /\ heap[word.lemma].string = <<44032, 45796>>
          /\ heap[derived.inflection].string = <<44036, 45796>>

(***************************************************************************)
(* The composition invariant of a Syllable, checked under SpecCodec.       *)
(***************************************************************************)
\* C12: in every state of a Syllable object, after from_syllable, after
\* from_jamos and after every Syllable.append, returned or raised, the three
\* jamos are in their catalogs (codes 0..18, 0..20, 0..27) and the character
\* is 0xAC00 + initial_code * 588 + medial_code * 28 + final_code.
C12_Composition ==
    syl # NewSyllable =>
        /\ Find(INITIAL_JAMOS, syl.jamo_initial) \in 0..18
        /\ Find(MEDIAL_JAMOS, syl.jamo_medial) \in 0..20
        /\ Find(FINAL_JAMOS, syl.jamo_final) \in 0..27
        /\ syl.syllable = 44032 + Find(INITIAL_JAMOS, syl.jamo_initial) * 588
                                + Find(MEDIAL_JAMOS, syl.jamo_medial) * 28
                                + Find(FINAL_JAMOS, syl.jamo_final)

(***************************************************************************)
(* The past tense, checked under SpecWord.                                 *)
(***************************************************************************)
\* the last sound unit of a form, 0 when the form is empty
TrailingUnit(form) ==
    IF form.jamos = <<>> THEN 0 ELSE Last(form.jamos)

\* the contraction table: o to wa, u to wo, i to yeo
Contracted(unit) ==
    CASE unit = 12631 -> 12632
      [] unit = 12636 -> 12637
      [] unit = 12643 -> 12629

\* C13: _build_base_inflection never returns silently for a stem it does not
\* handle.  For a root ending in ha, and for a root whose last sound unit is
\* none of a, o, eo, u, i, the call ends in a failure; for a root ending in
\* o, u or i it returns and the inflection ends in the contracted vowel.
C13_PastTense ==
    call.op = "_build_base_inflection" =>
        LET root == heap[derived.root]
            unit == TrailingUnit(root)
            ha == root.string # <<>> /\ Last(root.string) = 54616
        IN  /\ (ha \/ unit \notin {12623, 12631, 12627, 12636, 12643}) =>
                   call.err # NoError
            /\ (~ha /\ unit \in {12631, 12636, 12643}) =>
                   /\ call.err = NoError
                   /\ TrailingUnit(heap[derived.inflection]) = Contracted(unit)

(***************************************************************************)
(* The two tests of the root's last sound unit, checked under SpecWord.    *)
(***************************************************************************)
\* the test of PresentPolite and of the particle constructors
VowelTest(root) ==
    EndsWithAny(root.jamos, hangul_vowels)

\* the test of informalLow
ConsonantTest(root) ==
    EndsWithAny(root.jamos, hangul_consonants)

\* exactly one test holds, the vowel test exactly when the last syllable has
\* no final, so a merge branch is taken only on such a syllable
Complementary(root) ==
    /\ VowelTest(root) # ConsonantTest(root)
    /\ VowelTest(root) <=> OpenEnded(root)
    /\ (VowelTest(root) \/ ~ConsonantTest(root)) => OpenEnded(root)

\* C14 as stated: on the root of every constructed Noun, Verb and Adjective,
\* the empty root of the lemma da included, exactly one of the two tests
\* holds, the vowel test exactly when the last syllable has no final; the
\* merge branch of PresentPolite and informalLow is taken only on a last
\* syllable without a final and both conjugations return without error.
C14_Complement ==
    /\ word.cls # "" => Complementary(heap[word.root])
    /\ call.op \in {"PresentPolite", "informalLow"} => call.err = NoError

\* C14 amended: the same on every root that is not empty.  On the empty root
\* neither test holds: PresentPolite takes the branch without merge and
\* returns, informalLow takes the merge branch and raises the index error.
C14_ComplementNonEmpty ==
    /\ (word.cls # "" /\ heap[word.root].syllables # <<>>) =>
           Complementary(heap[word.root])
    /\ (call.op \in {"PresentPolite", "informalLow"} /\ heap[word.root].syllables # <<>>) =>
           call.err = NoError
    /\ (word.cls # "" /\ heap[word.root].syllables = <<>>) =>
           /\ ~VowelTest(heap[word.root])
           /\ ~ConsonantTest(heap[word.root])
           /\ call.op = "PresentPolite" =>
                  /\ call.err = NoError
                  /\ heap[derived.inflection].string = <<49845, 45768, 45796>>
           /\ call.op = "informalLow" => call.err = IndexError

\* informalLow of ga-da took the merge branch on the open syllable ga: gan-da
C14_Witness ==
    /\ call.op = "informalLow"
    /\ call.err = NoError
    /\ heap[word.root].string = <<44032>>
    /\ VowelTest(heap[word.root])
    /\ ~ConsonantTest(heap[word.root])
    /\ heap[derived.inflection].string = <<44036, 45796>>

(***************************************************************************)
(* Copy-on-derive, checked under SpecCopy.                                 *)
(***************************************************************************)
\* the objects a Word refers to
FormsOf(w) ==
    {w.lemma, w.root, w.inflection}

\* C11: Word.copy, the particle constructors and the conjugations share no
\* WordForm with the source Word, and neither they nor any later append to
\* the derived Word's root or inflection changes the source Word: its three
\* references and the syllables, string and jamos of its lemma, root and
\* inflection stay what they were.
C11_CopyOnDerive ==
    [][/\ word.cls # "" =>
             /\ word' = word
             /\ \A id \in FormsOf(word) : heap'[id] = heap[id]
       /\ (word'.cls # "" /\ derived'.cls # "") =>
             FormsOf(derived') \cap FormsOf(word') = {}]_vars

\* the copy of the noun ga was given the syllable da on its root and the final
\* b on its inflection; the source still reads ga
C11_Witness ==
    /\ word.cls = "Noun"
    /\ derived.cls = "Word"
    /\ call.op = "append"
    /\ heap[word.root].string = <<44032>>
    /\ heap[word.inflection].string = <<44032>>
    /\ heap[derived.root].string = <<44032, Da>>
    /\ heap[derived.inflection].string = <<44049>>

====
